---- MODULE Spec2Model ----
(***************************************************************************)
(* Model of the playback engine of mix-check (src/services/audioEngine.ts) *)
(* as a state machine: the AudioEngine fields, the platform state the      *)
(* engine reads and drives (the context clock, the context state, the      *)
(* buffer-source nodes that were started and not stopped), and the         *)
(* loadFile calls whose decode is still in flight.                         *)
(*                                                                         *)
(* Time is counted in whole ticks of the engine clock; positions, offsets  *)
(* and durations are integers in the same unit.                            *)
(***************************************************************************)
EXTENDS Integers, FiniteSets, Sequences

\* ------------------------------------------------------------------ bounds
MaxClock == 2          \* the engine clock advances up to here
MaxDuration == 2       \* longest decoded buffer, in ticks
MaxLoads == 2          \* loadFile calls issued in one behaviour
MaxTimers == 1         \* re-apply timers of the App pending at one time

\* ------------------------------------------------------------- value sets
Null == 0              \* a field holding null (audioEngine.ts:7-23)

NoBuffer == [load |-> Null, duration |-> 0]

Durations == {MaxDuration - 1, MaxDuration}

\* The values a caller passes to seek(): in range, below 0 and past the end.
SeekTargets == {0 - 1, 0, MaxDuration - 1, MaxDuration + 1}

VARIABLES
    context,      \* TRUE iff the constructor obtained an AudioContext
    ctxState,     \* context.state: "suspended" or "running" ("none": no context)
    currentTime,  \* context.currentTime, the monotonic engine clock
    buffer,       \* this.buffer: NoBuffer or [load, duration]
    sourceNode,   \* this.sourceNode: Null or a node id
    graph,        \* the nine other node fields, each Null or a node id
    startTime,    \* this.startTime
    pausedAt,     \* this.pausedAt
    isPlaying,    \* this.isPlaying
    started,      \* platform: source nodes started and not yet stopped
    gain,         \* the gain AudioParam of the lowGain, midGain, highGain nodes
    params,       \* type and frequency of the filters, settings of the analyser
    connections,  \* the connect() edges among the nodes the engine references
    loads,        \* loadFile calls suspended at an await
    loadSeq,      \* number of loadFile calls that passed the context check
    app,          \* the App component: file, isPlaying, stem state, timers
    lastCall      \* the most recent engine call and how it ended

vars == <<context, ctxState, currentTime, buffer, sourceNode, graph, startTime,
          pausedAt, isPlaying, started, gain, params, connections, loads,
          loadSeq, app, lastCall>>

GraphFields == {"masterGain", "analyser", "lowFilter", "midLowFilter",
                "midHighFilter", "highFilter", "lowGain", "midGain", "highGain"}

NoGraph == [f \in GraphFields |-> Null]

Stems == {"low", "mid", "high"}

\* Gains are counted in hundredths: 100 is the gain 1.
RampTime == 10         \* rampTime = 0.1, in hundredths of a second
LowCutoff == 250       \* Hz, lowFilter and midLowFilter
HighCutoff == 4000     \* Hz, midHighFilter and highFilter
FftSize == 2048
Smoothing == 85        \* smoothingTimeConstant = 0.85, in hundredths

\* A GainNode as createGain() returns it: gain 1, no automation scheduled.
DefaultGain == [target |-> 100, startTime |-> 0, timeConstant |-> 0]

NoGains == [s \in Stems |-> DefaultGain]

\* The filter and analyser settings play() assigns (lines 78-79, 85-104).
BuiltParams ==
    [lowFilter     |-> [type |-> "lowpass",  frequency |-> LowCutoff],
     midLowFilter  |-> [type |-> "highpass", frequency |-> LowCutoff],
     midHighFilter |-> [type |-> "lowpass",  frequency |-> HighCutoff],
     highFilter    |-> [type |-> "highpass", frequency |-> HighCutoff],
     analyser      |-> [fftSize |-> FftSize, smoothingTimeConstant |-> Smoothing]]

\* No filter and no analyser has been created yet.
NoParams == [created |-> FALSE]

\* The connect() calls of play() (lines 111-130), as <<from, to>>.
Routing ==
    {<<"sourceNode", "lowFilter">>, <<"sourceNode", "midLowFilter">>,
     <<"sourceNode", "highFilter">>,
     <<"lowFilter", "lowGain">>, <<"lowGain", "masterGain">>,
     <<"midLowFilter", "midHighFilter">>, <<"midHighFilter", "midGain">>,
     <<"midGain", "masterGain">>,
     <<"highFilter", "highGain">>, <<"highGain", "masterGain">>,
     <<"masterGain", "analyser">>, <<"analyser", "destination">>}

\* The engine together with the platform state its methods read and write.
Engine ==
    [context |-> context, ctxState |-> ctxState, currentTime |-> currentTime,
     buffer |-> buffer, sourceNode |-> sourceNode, graph |-> graph,
     startTime |-> startTime, pausedAt |-> pausedAt, isPlaying |-> isPlaying,
     started |-> started, gain |-> gain, params |-> params,
     connections |-> connections, raised |-> "none"]

\* The variables take the values of the engine record e.
Install(e) ==
    /\ context' = e.context
    /\ ctxState' = e.ctxState
    /\ currentTime' = e.currentTime
    /\ buffer' = e.buffer
    /\ sourceNode' = e.sourceNode
    /\ graph' = e.graph
    /\ startTime' = e.startTime
    /\ pausedAt' = e.pausedAt
    /\ isPlaying' = e.isPlaying
    /\ started' = e.started
    /\ gain' = e.gain
    /\ params' = e.params
    /\ connections' = e.connections

Call(op, e) ==
    [op |-> op, wasPlaying |-> isPlaying, raised |-> e.raised]

\* ---------------------------------------------------------------- getters
\* getCurrentTime with the operands of the subtraction exchanged.
getCurrentTime_swapped(e) ==
    IF ~e.context \/ ~e.isPlaying THEN e.pausedAt
    ELSE e.startTime - e.currentTime

getCurrentTime(e) ==
    IF ~e.context \/ ~e.isPlaying THEN e.pausedAt
    ELSE e.currentTime - e.startTime

getDuration(e) == IF e.buffer # NoBuffer THEN e.buffer.duration ELSE 0

\* ------------------------------------------------------------- node ids
NodesInUse(e) ==
    ({e.sourceNode} \cup {e.graph[f] : f \in GraphFields}
        \cup {s.node : s \in e.started}) \ {Null}

\* context.createBufferSource() and the other create calls return objects
\* distinct from every object still referenced.
NewNode(e) ==
    CHOOSE n \in 1 .. (Cardinality(NodesInUse(e)) + 1) : n \notin NodesInUse(e)

\* ------------------------------------------------------------- transport
\* sourceNode.start(0, offset). The Web Audio API throws a RangeError for a
\* negative offset and the statements after the call do not run; otherwise
\* the node plays its buffer from offset, starting now.
start(e, offset) ==
    IF offset < 0 THEN [e EXCEPT !.raised = "RangeError"]
    ELSE [e EXCEPT !.started = @ \cup {[node |-> e.sourceNode,
                                        buffer |-> e.buffer.load,
                                        offset |-> offset,
                                        when |-> e.currentTime]}]

\* build with a low cutoff that differs from one build to the next.
build_driftingCutoff(e) ==
    LET n == NewNode(e)
    IN  [e EXCEPT !.sourceNode = n,
                  !.graph = [f \in GraphFields |-> n],
                  !.gain = NoGains,
                  !.params = [BuiltParams EXCEPT
                                !.lowFilter.frequency = LowCutoff * n],
                  !.connections = Routing]

\* Lines 72-130 of play(): ten new nodes assigned to the fields, the filter
\* and analyser settings, the routing. New gain nodes have gain 1.
build(e) ==
    LET n == NewNode(e)
    IN  [e EXCEPT !.sourceNode = n,
                  !.graph = [f \in GraphFields |-> n],
                  !.gain = NoGains,
                  !.params = BuiltParams,
                  !.connections = Routing]

\* play without the isPlaying check of line 71: every call rebuilds.
play_rebuilds(e) ==
    IF ~e.context \/ e.buffer = NoBuffer THEN e
    ELSE LET built == build(e)
             offset == built.pausedAt
             s == start(built, offset)
         IN  IF s.raised # "none" THEN s
             ELSE [s EXCEPT !.startTime = s.currentTime - offset,
                            !.isPlaying = TRUE]

\* context.resume() (lines 67-69) is taken to put the context in "running".
play(e) ==
    IF ~e.context \/ e.buffer = NoBuffer THEN e
    ELSE LET r == IF e.ctxState = "suspended"
                  THEN [e EXCEPT !.ctxState = "running"] ELSE e
         IN  IF r.isPlaying THEN r
             ELSE LET built == build(r)
                      offset == built.pausedAt
                      s == start(built, offset)
                  IN  IF s.raised # "none" THEN s
                      ELSE [s EXCEPT !.startTime = s.currentTime - offset,
                                     !.isPlaying = TRUE]

\* pause without the pausedAt = elapsed assignment of lines 142-143.
pause_keepsPosition(e) ==
    IF ~e.context \/ ~e.isPlaying \/ e.sourceNode = Null THEN e
    ELSE [e EXCEPT !.started = {s \in @ : s.node # e.sourceNode},
                   !.connections = {c \in @ : c[1] # "sourceNode"},
                   !.sourceNode = Null,
                   !.isPlaying = FALSE]

pause(e) ==
    IF ~e.context \/ ~e.isPlaying \/ e.sourceNode = Null THEN e
    ELSE [e EXCEPT !.pausedAt = e.currentTime - e.startTime,
                   !.started = {s \in @ : s.node # e.sourceNode},
                   !.connections = {c \in @ : c[1] # "sourceNode"},
                   !.sourceNode = Null,
                   !.isPlaying = FALSE]

\* stop without the pausedAt = 0 assignment of line 153.
stop_keepsPosition(e) == pause(e)

stop(e) == [pause(e) EXCEPT !.pausedAt = 0]

\* seek without the buffer check of line 157.
seek_unguarded(e, time) ==
    IF ~e.context THEN e
    ELSE LET wasPlaying == e.isPlaying
             p == IF wasPlaying THEN pause(e) ELSE e
             q == [p EXCEPT !.pausedAt = time]
         IN  IF wasPlaying THEN play(q) ELSE q

\* seek that restarts playback whether or not the engine was playing.
seek_alwaysPlays(e, time) ==
    IF ~e.context \/ e.buffer = NoBuffer THEN e
    ELSE play([pause(e) EXCEPT !.pausedAt = time])

seek(e, time) ==
    IF ~e.context \/ e.buffer = NoBuffer THEN e
    ELSE LET wasPlaying == e.isPlaying
             p == IF wasPlaying THEN pause(e) ELSE e
             q == [p EXCEPT !.pausedAt = time]
         IN  IF wasPlaying THEN play(q) ELSE q

\* ---------------------------------------------------------------- loadFile
\* loadFile without its context check.
loadFileBegin_unchecked(e) == [stop(e) EXCEPT !.buffer = NoBuffer]

\* loadFile up to its first await: the context check, stop(), buffer = null.
loadFileBegin(e) ==
    IF ~e.context THEN [e EXCEPT !.raised = "Error"]
    ELSE [stop(e) EXCEPT !.buffer = NoBuffer]

\* loadFile after decodeAudioData resolved: install the buffer.
loadFileDecoded(e, l, duration) ==
    [e EXCEPT !.buffer = [load |-> l.id, duration |-> duration],
              !.pausedAt = 0,
              !.startTime = 0]

\* loadFile after arrayBuffer() or decodeAudioData rejected: the catch block.
loadFileFailed(e, l) == [e EXCEPT !.raised = "Error"]

\* ------------------------------------------------ graph construction faults
\* The statements of play() at which the platform is taken to refuse a node:
\* createBufferSource (line 72), the first createGain (line 76), and the first
\* connect (line 111).
FailPoints == {"createBufferSource", "createGain", "connect"}

\* build(e) interrupted by an exception at the given statement: the fields
\* assigned before it keep their new nodes, the rest of play() does not run.
buildFails(e, point) ==
    LET n == NewNode(e) IN
    IF point = "createBufferSource" THEN [e EXCEPT !.raised = "Error"]
    ELSE IF point = "createGain"
         THEN [e EXCEPT !.sourceNode = n, !.raised = "Error"]
    ELSE [build(e) EXCEPT !.connections = {}, !.raised = "Error"]

\* play() when the platform throws at the given statement of the build.
playFails(e, point) ==
    IF ~e.context \/ e.buffer = NoBuffer THEN e
    ELSE LET r == IF e.ctxState = "suspended"
                  THEN [e EXCEPT !.ctxState = "running"] ELSE e
         IN  IF r.isPlaying THEN r ELSE buildFails(r, point)

\* seek() when the platform throws in the build of its play() half.
seekFails(e, time, point) ==
    IF ~e.context \/ e.buffer = NoBuffer THEN e
    ELSE LET wasPlaying == e.isPlaying
             p == IF wasPlaying THEN pause(e) ELSE e
             q == [p EXCEPT !.pausedAt = time]
         IN  IF wasPlaying THEN playFails(q, point) ELSE q

\* --------------------------------------------------------- stem controls
\* The values a caller passes to setStemVolume(): below 0, in range, above 1.
StemInputs == {0 - 50, 50, 150}

\* An assignment gain.value = value in place of the ramp: the parameter
\* jumps to value at once.
setValueAtOnce(param, value, time, timeConstant) ==
    [target |-> value, startTime |-> time, timeConstant |-> 0]

\* gain.setTargetAtTime(value, time, rampTime): an exponential approach to
\* value with time constant rampTime, starting at time.
setTargetAtTime(param, value, time, timeConstant) ==
    [target |-> value, startTime |-> time, timeConstant |-> timeConstant]

setStemVolume(e, stem, value) ==
    IF ~e.context THEN e
    ELSE IF stem = "low" /\ e.graph.lowGain # Null
         THEN [e EXCEPT !.gain.low = setTargetAtTime(@, value, e.currentTime, RampTime)]
    ELSE IF stem = "mid" /\ e.graph.midGain # Null
         THEN [e EXCEPT !.gain.mid = setTargetAtTime(@, value, e.currentTime, RampTime)]
    ELSE IF stem = "high" /\ e.graph.highGain # Null
         THEN [e EXCEPT !.gain.high = setTargetAtTime(@, value, e.currentTime, RampTime)]
    ELSE e

getAnalyser(e) == e.graph.analyser

\* A spectrum pull, getAnalyser() then analyser.getByteFrequencyData(): "null"
\* when getAnalyser() returns null, "live" when the analyser belongs to a graph
\* whose source is started, "zeros" when its graph was never started, and
\* "torn-down" when its graph's source was stopped and disconnected.
SpectrumPull(e) ==
    IF getAnalyser(e) = Null THEN "null"
    ELSE IF \E run \in e.started : run.node = getAnalyser(e) THEN "live"
    ELSE IF e.sourceNode = getAnalyser(e) THEN "zeros"
    ELSE "torn-down"

\* ------------------------------------------------------------------- App
\* The positions the stem sliders are moved to (min 0, max 1, in hundredths).
SliderValues == {50, 100}

\* The band whose slider and mute button the user works; the handlers take
\* the band id as a parameter and treat every band alike.
TouchedStems == {"low"}

\* The App component as first rendered (App.tsx lines 18-30). Its Visualizer
\* is mounted with it and keeps, for as long as it is mounted, the analyser
\* that getAnalyser() returned in its mount effect: the engine's analyser
\* before any play().
NewApp ==
    [file |-> FALSE, isPlaying |-> FALSE, loadingAudio |-> FALSE,
     stemVolumes |-> [s \in Stems |-> 100],
     stemMutes |-> [s \in Stems |-> FALSE],
     timers |-> <<>>,
     analyser |-> getAnalyser([graph |-> NoGraph])]

\* One frame of the Visualizer's render loop: "skipped" when the analyser it
\* captured is null, else a pull from that analyser.
render(a, e) ==
    IF a.analyser = Null THEN "skipped"
    ELSE SpectrumPull([e EXCEPT !.graph.analyser = a.analyser])

\* The App and the engine it drives, as one value the handlers transform.
AppState == [app |-> app, engine |-> Engine]

InstallApp(st) == Install(st.engine) /\ app' = st.app

\* What the App sends to the engine for a band: stemMutes[k] ? 0 : vol.
EffectiveGain(a, id) == IF a.stemMutes[id] THEN 0 ELSE a.stemVolumes[id]

\* The closure of the 50 ms timer: it holds the stemVolumes and stemMutes of
\* the render in which the play button was clicked.
Closure(a) == [stemVolumes |-> a.stemVolumes, stemMutes |-> a.stemMutes]

\* The timer's callback: Object.entries(stemVolumes).forEach(setStemVolume).
reapply(e, c) ==
    LET e1 == setStemVolume(e, "low", EffectiveGain(c, "low"))
        e2 == setStemVolume(e1, "mid", EffectiveGain(c, "mid"))
    IN setStemVolume(e2, "high", EffectiveGain(c, "high"))

handlePlayPause(st) ==
    IF ~st.app.file THEN st
    ELSE IF st.app.isPlaying
    THEN [app |-> [st.app EXCEPT !.isPlaying = FALSE],
          engine |-> pause(st.engine)]
    ELSE LET e == play(st.engine) IN
         IF e.raised # "none" THEN [st EXCEPT !.engine = e]
         ELSE [app |-> [st.app EXCEPT !.timers = Append(@, Closure(st.app)),
                                      !.isPlaying = TRUE],
               engine |-> e]

\* handleFileUpload up to the await of loadFile: setFile, setLoadingAudio.
\* When loadFile throws at once (no context) the catch and finally blocks
\* follow: setFile(null), setLoadingAudio(false).
handleFileUploadBegin(st) ==
    LET e == loadFileBegin(st.engine) IN
    IF e.raised # "none"
    THEN [app |-> [st.app EXCEPT !.file = FALSE, !.loadingAudio = FALSE],
          engine |-> e]
    ELSE [app |-> [st.app EXCEPT !.file = TRUE, !.loadingAudio = TRUE],
          engine |-> e]

\* handleFileUpload after loadFile resolved: setIsPlaying(false), then the
\* finally block.
handleFileUploadResolved(st, l, duration) ==
    [app |-> [st.app EXCEPT !.isPlaying = FALSE, !.loadingAudio = FALSE],
     engine |-> loadFileDecoded(st.engine, l, duration)]

\* handleFileUpload after loadFile rejected: the catch block, then finally.
handleFileUploadRejected(st, l) ==
    [app |-> [st.app EXCEPT !.file = FALSE, !.loadingAudio = FALSE],
     engine |-> loadFileFailed(st.engine, l)]

\* handleStop without setIsPlaying(false).
handleStop_keepsFlag(st) == [st EXCEPT !.engine = stop(@)]

handleStop(st) ==
    [app |-> [st.app EXCEPT !.isPlaying = FALSE], engine |-> stop(st.engine)]

handleSeek(st, time) == [st EXCEPT !.engine = seek(@, time)]

\* handleStemVolumeChange without the stemMutes check of line 89.
handleStemVolumeChange_ignoresMute(st, id, val) ==
    [app |-> [st.app EXCEPT !.stemVolumes[id] = val],
     engine |-> setStemVolume(st.engine, id, val)]

handleStemVolumeChange(st, id, val) ==
    [app |-> [st.app EXCEPT !.stemVolumes[id] = val],
     engine |-> IF ~st.app.stemMutes[id]
                THEN setStemVolume(st.engine, id, val)
                ELSE st.engine]

handleStemMute_unmutesToDefault(st, id) ==
    LET newMutes == [st.app.stemMutes EXCEPT ![id] = ~@] IN
    [app |-> [st.app EXCEPT !.stemMutes = newMutes],
     engine |-> setStemVolume(st.engine, id, IF newMutes[id] THEN 0 ELSE 100)]

handleStemMute(st, id) ==
    LET newMutes == [st.app.stemMutes EXCEPT ![id] = ~@] IN
    [app |-> [st.app EXCEPT !.stemMutes = newMutes],
     engine |-> setStemVolume(st.engine, id,
                              IF newMutes[id] THEN 0
                              ELSE st.app.stemVolumes[id])]

\* ------------------------------------------------------------------ Init
Init ==
    /\ context \in BOOLEAN
    /\ ctxState \in (IF context THEN {"suspended", "running"} ELSE {"none"})
    /\ currentTime = 0
    /\ buffer = NoBuffer
    /\ sourceNode = Null
    /\ graph = NoGraph
    /\ startTime = 0
    /\ pausedAt = 0
    /\ isPlaying = FALSE
    /\ started = {}
    /\ gain = NoGains
    /\ params = NoParams
    /\ connections = {}
    /\ loads = {}
    /\ loadSeq = 0
    /\ app = NewApp
    /\ lastCall = [op |-> "new", wasPlaying |-> FALSE, raised |-> "none"]

\* --------------------------------------------------------------- actions
\* The engine clock advances while the context runs.
Tick ==
    /\ context
    /\ ctxState = "running"
    /\ currentTime < MaxClock
    /\ currentTime' = currentTime + 1
    /\ UNCHANGED <<context, ctxState, buffer, sourceNode, graph, startTime,
                   pausedAt, isPlaying, started, gain, params, connections,
                   loads, loadSeq, app, lastCall>>

Play ==
    /\ Install(play(Engine))
    /\ lastCall' = Call("play", play(Engine))
    /\ UNCHANGED <<loads, loadSeq, app>>

Pause ==
    /\ Install(pause(Engine))
    /\ lastCall' = Call("pause", pause(Engine))
    /\ UNCHANGED <<loads, loadSeq, app>>

Stop ==
    /\ Install(stop(Engine))
    /\ lastCall' = Call("stop", stop(Engine))
    /\ UNCHANGED <<loads, loadSeq, app>>

Seek(time) ==
    /\ Install(seek(Engine, time))
    /\ lastCall' = Call("seek", seek(Engine, time))
    /\ UNCHANGED <<loads, loadSeq, app>>

\* What a caller can observe of the engine (the state a failed load is said
\* to leave as it was).
Observed(e) ==
    [buffer |-> e.buffer, position |-> getCurrentTime(e),
     isPlaying |-> e.isPlaying]

LoadFile ==
    /\ context => loadSeq < MaxLoads
    /\ Install(loadFileBegin(Engine))
    /\ lastCall' = Call("loadFile", loadFileBegin(Engine))
    /\ IF context
       THEN /\ loadSeq' = loadSeq + 1
            /\ loads' = loads \cup
                 {[id |-> loadSeq + 1,
                   pc |-> IF ctxState = "suspended" THEN "resume" ELSE "decode",
                   before |-> Observed(Engine)]}
       ELSE UNCHANGED <<loads, loadSeq>>
    /\ UNCHANGED app

\* await this.context.resume() returns: the context runs.
LoadResumed(l) ==
    /\ l \in loads
    /\ l.pc = "resume"
    /\ ctxState' = "running"
    /\ loads' = (loads \ {l}) \cup {[l EXCEPT !.pc = "decode"]}
    /\ UNCHANGED <<context, currentTime, buffer, sourceNode, graph, startTime,
                   pausedAt, isPlaying, started, gain, params, connections,
                   loadSeq, app, lastCall>>

LoadDecoded(l, duration) ==
    /\ l \in loads
    /\ l.pc = "decode"
    /\ Install(loadFileDecoded(Engine, l, duration))
    /\ loads' = loads \ {l}
    /\ lastCall' = Call("loadFile.resolved", loadFileDecoded(Engine, l, duration))
    /\ UNCHANGED <<loadSeq, app>>

LoadFailed(l) ==
    /\ l \in loads
    /\ l.pc = "decode"
    /\ Install(loadFileFailed(Engine, l))
    /\ loads' = loads \ {l}
    /\ lastCall' = Call("loadFile.rejected", loadFileFailed(Engine, l))
    /\ UNCHANGED <<loadSeq, app>>

SetStemVolume(stem, value) ==
    /\ Install(setStemVolume(Engine, stem, value))
    /\ lastCall' = Call("setStemVolume", setStemVolume(Engine, stem, value))
    /\ UNCHANGED <<loads, loadSeq, app>>

Next ==
    \/ Tick
    \/ Play
    \/ Pause
    \/ Stop
    \/ \E time \in SeekTargets : Seek(time)
    \/ LoadFile
    \/ \E l \in loads : LoadResumed(l)
    \/ \E l \in loads, duration \in Durations : LoadDecoded(l, duration)
    \/ \E l \in loads : LoadFailed(l)

Spec == Init /\ [][Next]_vars

\* ------------------------------------------------ the engine, file loaded
\* The engine once a first loadFile has resolved, before any other call.
InitLoaded ==
    /\ context = TRUE
    /\ ctxState = "running"
    /\ currentTime = 0
    /\ buffer \in {[load |-> 1, duration |-> d] : d \in Durations}
    /\ sourceNode = Null
    /\ graph = NoGraph
    /\ startTime = 0
    /\ pausedAt = 0
    /\ isPlaying = FALSE
    /\ started = {}
    /\ gain = NoGains
    /\ params = NoParams
    /\ connections = {}
    /\ loads = {}
    /\ loadSeq = 1
    /\ app = NewApp
    /\ lastCall = [op |-> "loadFile.resolved", wasPlaying |-> FALSE,
                   raised |-> "none"]

\* Transport and stem calls on the loaded engine.
NextStems ==
    \/ Tick
    \/ Play
    \/ Pause
    \/ Stop
    \/ \E time \in SeekTargets : Seek(time)
    \/ \E stem \in Stems, value \in StemInputs : SetStemVolume(stem, value)

SpecStems == InitLoaded /\ [][NextStems]_vars

\* ------------------------------------------- transport with build faults
\* play() on a loaded, non-playing engine, with the build failing at point.
PlayFails(point) ==
    /\ context /\ buffer # NoBuffer /\ ~isPlaying
    /\ Install(playFails(Engine, point))
    /\ lastCall' = Call("play", playFails(Engine, point))
    /\ UNCHANGED <<loads, loadSeq, app>>

\* seek() on a playing engine, with the rebuild failing at point.
SeekFails(time, point) ==
    /\ context /\ buffer # NoBuffer /\ isPlaying
    /\ Install(seekFails(Engine, time, point))
    /\ lastCall' = Call("seek", seekFails(Engine, time, point))
    /\ UNCHANGED <<loads, loadSeq, app>>

NextFaults ==
    \/ Tick
    \/ Play
    \/ Pause
    \/ Stop
    \/ \E time \in SeekTargets : Seek(time)
    \/ \E point \in FailPoints : PlayFails(point)
    \/ \E time \in SeekTargets, point \in FailPoints : SeekFails(time, point)

SpecFaults == InitLoaded /\ [][NextFaults]_vars

\* ------------------------------------------------------- the App's steps
\* The seek slider: min 0, max duration.
SliderSeekTargets == {0, MaxDuration - 1}

AppStep(op, st) ==
    /\ InstallApp(st)
    /\ lastCall' = Call(op, st.engine)
    /\ UNCHANGED <<context, ctxState, currentTime, loads, loadSeq>>

\* A click on the play/pause button; a click that would start playback is
\* taken only while fewer than MaxTimers re-apply timers are pending.
HandlePlayPause ==
    /\ app.file /\ ~app.loadingAudio
    /\ app.isPlaying \/ Len(app.timers) < MaxTimers
    /\ AppStep("handlePlayPause", handlePlayPause(AppState))

\* The stop button, the seek slider and the stem console are rendered only
\* while a file is set.
HandleStop == app.file /\ AppStep("handleStop", handleStop(AppState))

HandleSeek(time) ==
    app.file /\ AppStep("handleSeek", handleSeek(AppState, time))

HandleStemVolumeChange(id, val) ==
    /\ app.file
    /\ AppStep("handleStemVolumeChange",
               handleStemVolumeChange(AppState, id, val))

HandleStemMute(id) ==
    app.file /\ AppStep("handleStemMute", handleStemMute(AppState, id))

\* The oldest pending re-apply timer fires.
TimerFires ==
    /\ app.timers # <<>>
    /\ AppStep("reapply", [app |-> [app EXCEPT !.timers = Tail(@)],
                           engine |-> reapply(Engine, Head(app.timers))])

\* A file is chosen; the file input is rendered only while no file is set.
HandleFileUpload ==
    /\ ~app.file
    /\ context => loadSeq < MaxLoads
    /\ InstallApp(handleFileUploadBegin(AppState))
    /\ lastCall' = Call("handleFileUpload",
                        handleFileUploadBegin(AppState).engine)
    /\ IF context
       THEN /\ loadSeq' = loadSeq + 1
            /\ loads' = loads \cup
                 {[id |-> loadSeq + 1,
                   pc |-> IF ctxState = "suspended" THEN "resume" ELSE "decode",
                   before |-> Observed(Engine)]}
       ELSE UNCHANGED <<loads, loadSeq>>

\* The awaited loadFile resolves and handleFileUpload runs to its end.
HandleFileUploadResolved(l, duration) ==
    /\ l \in loads
    /\ l.pc = "decode"
    /\ InstallApp(handleFileUploadResolved(AppState, l, duration))
    /\ loads' = loads \ {l}
    /\ lastCall' = Call("handleFileUpload.resolved",
                        handleFileUploadResolved(AppState, l, duration).engine)
    /\ UNCHANGED loadSeq

\* The awaited loadFile rejects and handleFileUpload runs to its end.
HandleFileUploadRejected(l) ==
    /\ l \in loads
    /\ l.pc = "decode"
    /\ InstallApp(handleFileUploadRejected(AppState, l))
    /\ loads' = loads \ {l}
    /\ lastCall' = Call("handleFileUpload.rejected",
                        handleFileUploadRejected(AppState, l).engine)
    /\ UNCHANGED loadSeq

\* The App from its first render: uploads, then the transport controls.
NextUpload ==
    \/ Tick
    \/ HandleFileUpload
    \/ \E l \in loads : LoadResumed(l)
    \/ \E l \in loads, duration \in Durations :
          HandleFileUploadResolved(l, duration)
    \/ \E l \in loads : HandleFileUploadRejected(l)
    \/ HandlePlayPause
    \/ HandleStop
    \/ \E time \in SliderSeekTargets : HandleSeek(time)
    \/ TimerFires

SpecUpload == Init /\ [][NextUpload]_vars

\* The App after a successful upload: the file is set and the engine loaded.
InitApp ==
    /\ context = TRUE
    /\ ctxState = "running"
    /\ currentTime = 0
    /\ buffer \in {[load |-> 1, duration |-> d] : d \in Durations}
    /\ sourceNode = Null
    /\ graph = NoGraph
    /\ startTime = 0
    /\ pausedAt = 0
    /\ isPlaying = FALSE
    /\ started = {}
    /\ gain = NoGains
    /\ params = NoParams
    /\ connections = {}
    /\ loads = {}
    /\ loadSeq = 1
    /\ app = [NewApp EXCEPT !.file = TRUE]
    /\ lastCall = [op |-> "handleFileUpload", wasPlaying |-> FALSE,
                   raised |-> "none"]

NextApp ==
    \/ Tick
    \/ HandlePlayPause
    \/ HandleStop
    \/ \E time \in SliderSeekTargets : HandleSeek(time)
    \/ \E id \in TouchedStems, val \in SliderValues :
          HandleStemVolumeChange(id, val)
    \/ \E id \in TouchedStems : HandleStemMute(id)
    \/ TimerFires

SpecApp == InitApp /\ [][NextApp]_vars

\* ---------------------------------------------------- steps, by operation
SeekStep == \E time \in SeekTargets : Seek(time)

\* Every step of a loadFile call: its start, and each continuation after an
\* await (the context resumed, the decode resolved, the decode rejected).
LoadStep ==
    \/ LoadFile
    \/ \E l \in loads : LoadResumed(l)
    \/ \E l \in loads, duration \in Durations : LoadDecoded(l, duration)
    \/ \E l \in loads : LoadFailed(l)

\* The source node the engine references is started and still sounding.
\* The engine's reference to a band's gain node.
GainNode(e, stem) ==
    IF stem = "low" THEN e.graph.lowGain
    ELSE IF stem = "mid" THEN e.graph.midGain
    ELSE e.graph.highGain

CurrentRun == {s \in started : s.node = sourceNode}

Clamp(t, lo, hi) == IF t < lo THEN lo ELSE IF t > hi THEN hi ELSE t

\* ------------------------------------------------------------------ C1
\* C1: under any sequence of calls and any advance of the clock,
\* getCurrentTime() is >= 0 and <= getDuration().
C1_PositionWithinDuration ==
    /\ getCurrentTime(Engine) >= 0
    /\ getCurrentTime(Engine) <= getDuration(Engine)

\* ------------------------------------------------------------------ C2
\* C2: seek(t) with a buffer loaded leaves the position at t clamped to
\* [0, duration] and raises nothing, Playing or not.
C2_SeekClamps ==
    [][\A t \in SeekTargets :
         (buffer # NoBuffer /\ Seek(t)) =>
            /\ getCurrentTime(Engine)' = Clamp(t, 0, getDuration(Engine))
            /\ lastCall'.raised = "none"]_vars

\* ------------------------------------------------------------------ C3
\* C3: while the engine stays Playing and the step is no seek, stop, pause
\* or load, getCurrentTime() after the step is >= getCurrentTime() before it.
C3_MonotoneWhilePlaying ==
    [][(isPlaying /\ isPlaying' /\ ~SeekStep /\ ~Stop /\ ~Pause /\ ~LoadStep)
         => getCurrentTime(Engine)' >= getCurrentTime(Engine)]_vars

\* Playing, and the clock has advanced since the run was started.
C3_Witness ==
    /\ isPlaying
    /\ \E s \in CurrentRun : currentTime > s.when

\* ------------------------------------------------------------------ C4
\* C4: when a loadFile attempt fails to decode, the buffer (with its
\* duration), the position and the phase are what they were before that
\* attempt began. Stated for the attempt that is alone: no other load is in
\* flight and no engine call was made since the attempt began.
C4_FailedLoadKeepsPriorState ==
    [][\A l \in loads :
         (loads = {l} /\ lastCall.op = "loadFile" /\ LoadFailed(l))
            => Observed(Engine)' = l.before]_vars

\* ------------------------------------------------------------------ C5
\* C5: when a loadFile call completes successfully the engine is Loaded: not
\* playing, no source node live, position 0, duration that of the new buffer.
C5_LoadEndsLoaded ==
    [][\A l \in loads, duration \in Durations :
         LoadDecoded(l, duration) =>
            /\ ~isPlaying'
            /\ started' = {}
            /\ getCurrentTime(Engine)' = 0
            /\ getDuration(Engine)' = duration]_vars

\* ------------------------------------------------------------------ C6
\* C6: of two overlapping loads the later issued one wins whatever order the
\* decodes finish in: the result of a load is never installed over the
\* buffer of a load issued after it.
C6_LatestLoadWins ==
    [][\A l \in loads, duration \in Durations :
         LoadDecoded(l, duration) => buffer.load < l.id]_vars

\* ------------------------------------------------------------------ C7
\* C7: play() while Playing creates no node, does not rewrite startTime and
\* leaves getCurrentTime() as it was.
C7_PlayWhilePlayingNoOp ==
    [][(isPlaying /\ Play) =>
         /\ UNCHANGED <<sourceNode, graph, started, startTime, pausedAt,
                        isPlaying, buffer>>
         /\ getCurrentTime(Engine)' = getCurrentTime(Engine)]_vars

\* play() was called on a Playing engine whose run is under way.
C7_Witness ==
    /\ lastCall.op = "play"
    /\ lastCall.wasPlaying
    /\ isPlaying
    /\ \E s \in CurrentRun : currentTime > s.when

\* ------------------------------------------------------------------ C8
\* C8: pause() from Playing stores position = clock - startTime, the value
\* getCurrentTime() had; while not Playing, every step that is no play, seek,
\* stop or load leaves getCurrentTime() at the stored value.
C8_PauseFreezesPosition ==
    [][/\ (isPlaying /\ Pause) =>
            /\ pausedAt' = currentTime - startTime
            /\ ~isPlaying'
            /\ getCurrentTime(Engine)' = getCurrentTime(Engine)
       /\ (~isPlaying /\ ~Play /\ ~SeekStep /\ ~Stop /\ ~LoadStep) =>
            /\ getCurrentTime(Engine)' = pausedAt
            /\ pausedAt' = pausedAt]_vars

\* Paused from Playing at a positive position, and the clock has moved on.
C8_Witness ==
    /\ lastCall.op = "pause"
    /\ lastCall.wasPlaying
    /\ ~isPlaying
    /\ pausedAt > 0
    /\ currentTime - startTime > pausedAt

\* ------------------------------------------------------------------ C9
\* C9: play() with a buffer loaded and not Playing starts the source at the
\* stored position, records startTime = clock - position, and leaves the
\* engine Playing with getCurrentTime() equal to the stored position.
C9_PlayResumesAtStoredPosition ==
    [][(~isPlaying /\ buffer # NoBuffer /\ Play) =>
         /\ isPlaying'
         /\ startTime' = currentTime - pausedAt
         /\ getCurrentTime(Engine)' = pausedAt
         /\ \E s \in started' : s.node = sourceNode' /\ s.offset = pausedAt]_vars

\* ------------------------------------------------------------------ C10
\* C10: while Playing, getCurrentTime() is the offset the current run was
\* started at plus the clock time elapsed since it was started; while not
\* Playing it is the stored position.
C10_PositionFollowsRun ==
    IF isPlaying
    THEN \E s \in CurrentRun :
            getCurrentTime(Engine) = s.offset + (currentTime - s.when)
    ELSE getCurrentTime(Engine) = pausedAt

\* ------------------------------------------------------------------ C11
\* C11: stop() with a buffer loaded (Loaded, Playing or Paused) leaves the
\* engine not playing with no source node sounding, getCurrentTime() = 0 and
\* the buffer and duration as they were; a second stop() changes nothing.
C11_StopResets ==
    [][(buffer # NoBuffer /\ Stop) =>
         /\ ~isPlaying'
         /\ started' = {}
         /\ getCurrentTime(Engine)' = 0
         /\ buffer' = buffer
         /\ getDuration(Engine)' = getDuration(Engine)
         /\ stop(Engine)' = Engine']_vars

\* stop() was called on a Playing engine whose position had left 0.
C11_Witness ==
    /\ lastCall.op = "stop"
    /\ lastCall.wasPlaying
    /\ ~isPlaying
    /\ pausedAt = 0
    /\ currentTime - startTime > 0

\* ------------------------------------------------------------------ C12
\* C12: seek(t) while Playing returns with the engine Playing on a freshly
\* built graph whose source was started at the clamped target, with
\* getCurrentTime() equal to the clamped target and the old source stopped.
C12_SeekWhilePlayingRestarts ==
    [][\A t \in SeekTargets :
         (isPlaying /\ Seek(t)) =>
            /\ isPlaying'
            /\ sourceNode' \notin NodesInUse(Engine)
            /\ \A f \in GraphFields : graph'[f] \notin NodesInUse(Engine)
            /\ started' = {[node |-> sourceNode', buffer |-> buffer.load,
                            offset |-> Clamp(t, 0, getDuration(Engine)),
                            when |-> currentTime]}
            /\ getCurrentTime(Engine)' = Clamp(t, 0, getDuration(Engine))]_vars

\* ------------------------------------------------------------------ C13
\* C13: seek(t) with a buffer loaded and not Playing only writes the stored
\* position: the engine stays not playing, no node is created or started, and
\* the buffer and duration are unchanged.
C13_SeekWhileStoppedOnlyMoves ==
    [][\A t \in SeekTargets :
         (~isPlaying /\ buffer # NoBuffer /\ Seek(t)) =>
            /\ pausedAt' = t
            /\ UNCHANGED <<isPlaying, sourceNode, graph, started, buffer,
                           startTime, currentTime>>
            /\ getDuration(Engine)' = getDuration(Engine)]_vars

\* seek() was called on a loaded, non-playing engine and moved the position.
C13_Witness ==
    /\ lastCall.op = "seek"
    /\ ~lastCall.wasPlaying
    /\ ~isPlaying
    /\ buffer # NoBuffer
    /\ pausedAt = MaxDuration - 1

\* ------------------------------------------------------------------ C14
\* C14: for every band and every gain value g set before muting, muting the
\* band forces its gain to 0 and un-muting it then restores exactly g: the
\* App still holds g, and the value sent to the band's gain stage is g.
C14_MuteRoundTrip ==
    \A id \in Stems :
        ~app.stemMutes[id] =>
            LET g == app.stemVolumes[id]
                muted == handleStemMute(AppState, id)
                unmuted == handleStemMute(muted, id)
            IN /\ muted.app.stemMutes[id]
               /\ muted.app.stemVolumes[id] = g
               /\ ~unmuted.app.stemMutes[id]
               /\ unmuted.app.stemVolumes[id] = g
               /\ GainNode(Engine, id) # Null =>
                     /\ muted.engine.gain[id].target = 0
                     /\ unmuted.engine.gain[id].target = g

\* The low band, set to 0.5, was muted and has just been un-muted while its
\* gain node exists.
C14_Witness ==
    /\ lastCall.op = "handleStemMute"
    /\ ~app.stemMutes["low"]
    /\ app.stemVolumes["low"] = 50
    /\ GainNode(Engine, "low") # Null
    /\ gain["low"].target = 50

\* ------------------------------------------------------------------ C15
\* C15: a band gain or mute change made while the engine is not playing is
\* not lost: at the moment the next play starts the run, every band's gain
\* stage carries the value the UI holds for it (0 if muted, else the slider
\* value), not the default gain of 1.
C15_ChangeSurvivesNextPlay ==
    [][(HandlePlayPause /\ ~isPlaying /\ isPlaying') =>
          \A id \in Stems : gain'[id].target = EffectiveGain(app, id)]_vars

\* ------------------------------------------------------------------ C16
\* C16: setStemVolume with a value below 0 or above 1 does not raise, and the
\* value applied to the band's gain stage is clamped to 0 or 1, so the gain
\* target of every band is always within [0, 1].
C16_GainClamped ==
    [][\A stem \in Stems, value \in StemInputs :
         SetStemVolume(stem, value) =>
            /\ lastCall'.raised = "none"
            /\ GainNode(Engine, stem) # Null =>
                  gain'[stem].target = Clamp(value, 0, 100)
            /\ \A s \in Stems : gain'[s].target \in 0..100]_vars

\* ------------------------------------------------------------------ C17
\* The calls an engine without an audio context answers as no-ops: each
\* returns the engine as it was, and the getters return 0.
NoContextNoOps ==
    /\ play(Engine) = Engine
    /\ pause(Engine) = Engine
    /\ stop(Engine) = Engine
    /\ \A t \in SeekTargets : seek(Engine, t) = Engine
    /\ \A stem \in Stems, value \in StemInputs :
          setStemVolume(Engine, stem, value) = Engine
    /\ getCurrentTime(Engine) = 0
    /\ getDuration(Engine) = 0

\* No step of an engine without a context changes the engine's state.
NoContextUnchanged ==
    UNCHANGED <<context, ctxState, currentTime, buffer, sourceNode, graph,
                startTime, pausedAt, isPlaying, started, gain, params,
                connections, loads, loadSeq>>

\* C17 (as stated): without an audio context every engine call, loadFile
\* included, leaves the engine state unchanged and does not throw.
C17_NoContextNeverThrows ==
    [][~context =>
         /\ NoContextNoOps
         /\ NoContextUnchanged
         /\ lastCall'.raised = "none"]_vars

\* C17 (amended): without an audio context every engine call leaves the
\* engine state unchanged; play, pause, stop, seek, setStemVolume and the
\* getters do not throw, and loadFile rejects with the error
\* "AudioContext not supported".
C17_NoContextNoOpsLoadRejects ==
    [][~context =>
         /\ NoContextNoOps
         /\ NoContextUnchanged
         /\ lastCall'.raised = IF LoadFile THEN "Error" ELSE "none"]_vars

\* loadFile was called on an engine without a context and rejected.
C17_Witness ==
    /\ ~context
    /\ lastCall.op = "loadFile"
    /\ lastCall.raised = "Error"
    /\ buffer = NoBuffer
    /\ loads = {}

\* ------------------------------------------------------------------ C18
\* C18: whenever no active graph exists (the engine is not playing), a
\* spectrum pull yields nothing or a frame of zeros; it never returns data
\* from a torn-down graph.
C18_NoGraphZeroFrame ==
    ~isPlaying => SpectrumPull(Engine) \in {"null", "zeros"}

\* ------------------------------------------------------------------ C19
\* The engine references every node of a graph / some node of a graph.
FullGraph(e) == e.sourceNode # Null /\ \A f \in GraphFields : e.graph[f] # Null
HoldsGraph(e) == e.sourceNode # Null \/ \E f \in GraphFields : e.graph[f] # Null

\* C19: the engine holds a graph if and only if it is Playing: entering
\* Playing builds every node fresh, a playing engine references all ten
\* nodes, and after pause() or stop() it references none of them.
C19_GraphIffPlaying ==
    [][/\ (~isPlaying /\ isPlaying') =>
            /\ sourceNode' \notin NodesInUse(Engine)
            /\ \A f \in GraphFields : graph'[f] \notin NodesInUse(Engine)
       /\ isPlaying' => FullGraph(Engine)'
       /\ (Pause \/ Stop) => ~HoldsGraph(Engine)']_vars

\* ------------------------------------------------------------------ C20
\* The three band chains, the master bus and the output, without the edges
\* from the source.
BusRouting ==
    {<<"lowFilter", "lowGain">>, <<"lowGain", "masterGain">>,
     <<"midLowFilter", "midHighFilter">>, <<"midHighFilter", "midGain">>,
     <<"midGain", "masterGain">>,
     <<"highFilter", "highGain">>, <<"highGain", "masterGain">>,
     <<"masterGain", "analyser">>, <<"analyser", "destination">>}

SourceRouting ==
    {<<"sourceNode", "lowFilter">>, <<"sourceNode", "midLowFilter">>,
     <<"sourceNode", "highFilter">>}

\* C20: every graph built by play(), on every play/pause/seek cycle, has the
\* same topology and parameters (low-pass 250 Hz; high-pass 250 Hz into
\* low-pass 4000 Hz; high-pass 4000 Hz; a gain stage per band; one master bus
\* into the analyser and the output), and no operation changes the cutoffs.
C20_SameGraphEveryBuild ==
    HoldsGraph(Engine) =>
        /\ params.lowFilter = [type |-> "lowpass", frequency |-> 250]
        /\ params.midLowFilter = [type |-> "highpass", frequency |-> 250]
        /\ params.midHighFilter = [type |-> "lowpass", frequency |-> 4000]
        /\ params.highFilter = [type |-> "highpass", frequency |-> 4000]
        /\ connections \ SourceRouting = BusRouting
        /\ isPlaying => connections = BusRouting \cup SourceRouting

\* The engine plays on a graph that is not the first one it built.
C20_Witness ==
    /\ isPlaying
    /\ sourceNode > 1
    /\ graph.lowFilter = sourceNode
    /\ lastCall.op \in {"play", "seek"}

\* ------------------------------------------------------------------ C21
\* C21: when creating or wiring a node fails during play(), or during the
\* play half of a seek while Playing, the failure does not escape: the call
\* returns normally, the engine is not playing with its stored position
\* intact, no source is left running, and a later play() succeeds.
C21_BuildFailureContained ==
    [][\A point \in FailPoints :
         /\ PlayFails(point) =>
               /\ lastCall'.raised = "none"
               /\ ~isPlaying' /\ started' = {}
               /\ pausedAt' = pausedAt
               /\ (pausedAt' >= 0 => play(Engine)'.isPlaying)
         /\ \A time \in SeekTargets :
               SeekFails(time, point) =>
                  /\ lastCall'.raised = "none"
                  /\ ~isPlaying' /\ started' = {}
                  /\ pausedAt' = time
                  /\ (pausedAt' >= 0 => play(Engine)'.isPlaying)]_vars

\* ------------------------------------------------------------------ C22
\* No field of the engine, and nothing of the platform it drives, changes.
EngineUnchanged ==
    UNCHANGED <<context, ctxState, currentTime, buffer, sourceNode, graph,
                startTime, pausedAt, isPlaying, started, gain, params,
                connections>>

\* C22: a transport operation invoked in a phase where it is not valid leaves
\* the whole engine state unchanged (play() and seek() without a buffer;
\* pause() when not Playing), and Playing is only ever entered from Loaded or
\* Paused, that is by an engine that holds a buffer.
C22_InvalidTransportNoOp ==
    [][/\ (buffer = NoBuffer /\ (Play \/ SeekStep)) =>
            EngineUnchanged /\ lastCall'.raised = "none"
       /\ (~isPlaying /\ Pause) =>
            EngineUnchanged /\ lastCall'.raised = "none"
       /\ (~isPlaying /\ isPlaying') =>
            buffer # NoBuffer /\ buffer' = buffer]_vars

\* seek() was called on an engine that has a context but no buffer.
C22_Witness ==
    /\ context
    /\ buffer = NoBuffer
    /\ lastCall.op = "seek"
    /\ ~isPlaying
    /\ pausedAt = 0

\* ------------------------------------------------------------------ C23
\* C23: every band gain change applied while a graph is live is issued as a
\* ramp toward the target that starts at the current engine clock with the
\* fixed 0.1 s constant, never as an instantaneous assignment, for slider
\* changes, mute toggles and the re-apply timer alike.
C23_GainChangesAreRamps ==
    [][\A id \in Stems :
         /\ (gain'[id] # gain[id] /\ graph' = graph) =>
               /\ gain'[id].timeConstant = RampTime
               /\ gain'[id].startTime = currentTime
         /\ \A val \in SliderValues :
               (/\ HandleStemVolumeChange(id, val)
                /\ ~app.stemMutes[id]
                /\ GainNode(Engine, id) # Null) =>
                  gain'[id] = [target |-> val, startTime |-> currentTime,
                               timeConstant |-> RampTime]
         /\ (HandleStemMute(id) /\ GainNode(Engine, id) # Null) =>
               gain'[id] = [target |-> EffectiveGain(app', id),
                            startTime |-> currentTime,
                            timeConstant |-> RampTime]]_vars

\* The low band was muted while Playing, after the clock had advanced: its
\* gain ramps to 0 from now.
C23_Witness ==
    /\ lastCall.op = "handleStemMute"
    /\ isPlaying
    /\ currentTime > 0
    /\ gain["low"] = [target |-> 0, startTime |-> currentTime,
                      timeConstant |-> RampTime]

\* ------------------------------------------------------------------ C24
\* C24: a seek while Playing preserves the band state: on the graph rebuilt
\* by the seek every muted band has gain 0 and every un-muted band has the
\* gain last set for it, not the default gain of 1.
C24_SeekKeepsBandState ==
    [][\A time \in SliderSeekTargets :
         (isPlaying /\ HandleSeek(time)) =>
            \A id \in Stems : gain'[id].target = EffectiveGain(app', id)]_vars

\* ------------------------------------------------------------------ C25
\* C25: while a band is muted, moving its slider never raises the band's
\* engine gain above 0: the move leaves the engine's gain as it was and only
\* remembers the value, and un-muting applies the most recently remembered
\* value.
C25_SliderWhileMutedOnlyRemembers ==
    [][\A id \in Stems :
         /\ \A val \in SliderValues :
               (app.stemMutes[id] /\ HandleStemVolumeChange(id, val)) =>
                  /\ gain' = gain
                  /\ app'.stemMutes[id]
                  /\ app'.stemVolumes[id] = val
         /\ (app.stemMutes[id] /\ HandleStemMute(id)) =>
               /\ ~app'.stemMutes[id]
               /\ GainNode(Engine, id) # Null =>
                     gain'[id].target = app.stemVolumes[id]]_vars

\* The low band's slider was moved to 0.5 while the band was muted and
\* Playing: the engine's gain for it is still 0.
C25_Witness ==
    /\ lastCall.op = "handleStemVolumeChange"
    /\ app.stemMutes["low"]
    /\ app.stemVolumes["low"] = 50
    /\ isPlaying
    /\ gain["low"].target = 0

\* ------------------------------------------------------------------ C28
\* C28: after the re-apply timer scheduled by a play click has fired, every
\* band's engine gain target equals the UI's current effective gain (0 if
\* muted, else the slider value), whatever the user changed between the click
\* and the timer firing.
C28_TimerAppliesCurrentState ==
    [][TimerFires =>
         \A id \in Stems :
            GainNode(Engine, id)' # Null =>
               gain'[id].target = EffectiveGain(app', id)]_vars

\* ------------------------------------------------------------------ C26
\* C26: on every render tick while the engine is Playing, the Visualizer
\* pulls its frame from the analyser of the graph that is playing, for the
\* first play after it was mounted and for every graph rebuilt later.
C26_VisualizerFollowsGraph ==
    isPlaying =>
        /\ app.analyser = getAnalyser(Engine)
        /\ render(app, Engine) = "live"

\* ------------------------------------------------------------------ C27
\* C27: under any interleaving of loadFile (overlapping loads included),
\* play, pause, stop and seek, at most one buffer source node is started and
\* not yet stopped, and whenever one is, it is the node the engine references
\* and it plays the engine's current buffer.
C27_OneSourceOfCurrentBuffer ==
    /\ Cardinality(started) <= 1
    /\ \A run \in started :
          /\ run.node = sourceNode
          /\ buffer # NoBuffer
          /\ run.buffer = buffer.load

\* ------------------------------------------------------------------ C29
\* C29: from the start of a loadFile call until its decode completes the
\* engine behaves as Empty: play() and seek() are no-ops, getDuration() and
\* getCurrentTime() are 0, and no source node is live.
C29_EmptyWhileLoading ==
    loads # {} =>
        /\ play(Engine) = Engine
        /\ \A t \in SeekTargets : seek(Engine, t) = Engine
        /\ getDuration(Engine) = 0
        /\ getCurrentTime(Engine) = 0
        /\ started = {}
        /\ ~isPlaying

\* ------------------------------------------------------------------ C30
\* C30: after every UI handler (file upload success or failure, play/pause
\* click, stop click, seek) the App's isPlaying flag equals the engine's.
C30_FlagsAgree == app.isPlaying = isPlaying

\* The stop button was clicked while Playing: both flags are false.
C30_Witness ==
    /\ lastCall.op = "handleStop"
    /\ lastCall.wasPlaying
    /\ ~app.isPlaying
    /\ ~isPlaying

====
